---- MODULE Spec2Model ----
(***************************************************************************)
(* Ethiopian calendar feasts and fasts calculator (src/main.py).           *)
(*                                                                         *)
(* Spec     walks compute_fasts_and_feasts(year) statement by statement    *)
(*          for every year of Years.                                       *)
(* SpecCal  applies the calendar arithmetic (add_days, add_months) to      *)
(*          every valid date of CalYears.                                  *)
(*                                                                         *)
(* Python's // and % on integers are floor division and floor modulo, as   *)
(* are \div and % here.  math.trunc(x / y) is truncation toward zero.      *)
(***************************************************************************)
EXTENDS Integers, Sequences, FiniteSets

VARIABLES year, pc, yw, E, Mr, Jd, c, n, a, m,
          t_date, first_day_index, i, t_day_index,
          h_date, nineveh, results,
          cal_pc, cal_d, cal_a, cal_b, cal_r1, cal_r2

vars == <<year, pc, yw, E, Mr, Jd, c, n, a, m,
          t_date, first_day_index, i, t_day_index,
          h_date, nineveh, results,
          cal_pc, cal_d, cal_a, cal_b, cal_r1, cal_r2>>

computeVars == <<year, pc, yw, E, Mr, Jd, c, n, a, m,
                 t_date, first_day_index, i, t_day_index,
                 h_date, nineveh, results>>

calVars == <<cal_pc, cal_d, cal_a, cal_b, cal_r1, cal_r2>>

----------------------------------------------------------------------------
(* Bounds of the model *)

\* Years runs from YearSpan years before year -EpochOffset (where yw is
\* negative) to YearSpan years after ReferenceYear
YearSpan == 270
ReferenceYear == 2016
\* years of the dates SpecCal starts from: -CalSpan .. CalSpan
CalSpan == 4
\* SpecCal adds 0 .. MaxShort days, and the longer hops of DayArgs
MaxShort == 8
\* SpecCal adds -MaxMonths .. MaxMonths months
MaxMonths == 14

----------------------------------------------------------------------------
(* Constants of the program *)

EpochOffset == 5500

\* variant: a Saturday is followed by the very next Sunday
ADDONNextSunday == <<6, 5, 4, 3, 2, 1, 7>>

ADDON == <<6, 5, 4, 3, 2, 8, 7>>

\* variant: the digits of the Synod offset transposed
OffsetsTransposed == <<14, 41, 62, 67, 69, 39, 108, 118, 119, 121>>

\* the ten cascade offsets, in the insertion order of the dict
Offsets == <<14, 41, 62, 67, 69, 93, 108, 118, 119, 121>>

\* month_length raises ValueError: no length
InvalidMonth == -1

\* local variable not yet bound (t_day_index before the loop body has run)
Unbound == -1

\* the date-valued result of a call that raised
Raised == [year |-> 0, month |-> 0, day |-> 0]

EthioDate(y, mo, d) == [year |-> y, month |-> mo, day |-> d]

----------------------------------------------------------------------------
(* Calendar arithmetic *)

\* variant: leap years taken as the multiples of 4
IsEthioLeapEveryFourth(y) == (y % 4) = 0

IsEthioLeap(y) == (y % 4) = 3

\* variant: lower bound of the 30-day months off by one
MonthLengthFromSecond(month, y) ==
    IF 1 < month /\ month <= 12 THEN 30
    ELSE IF month = 13 THEN (IF IsEthioLeap(y) THEN 6 ELSE 5)
    ELSE InvalidMonth

MonthLength(month, y) ==
    IF 1 <= month /\ month <= 12 THEN 30
    ELSE IF month = 13 THEN (IF IsEthioLeap(y) THEN 6 ELSE 5)
    ELSE InvalidMonth

\* variant: the last day of the month is not reachable within the month
RECURSIVE AddDaysLoopStrict(_, _, _, _)
AddDaysLoopStrict(y, month, day, days) ==
    IF days <= 0 THEN EthioDate(y, month, day)
    ELSE LET ml == MonthLength(month, y) IN
         IF ml = InvalidMonth THEN Raised
         ELSE IF day + days < ml THEN AddDaysLoopStrict(y, month, day + days, 0)
         ELSE IF month + 1 > 13
              THEN AddDaysLoopStrict(y + 1, 1, 1, days - (ml - day + 1))
              ELSE AddDaysLoopStrict(y, month + 1, 1, days - (ml - day + 1))

\* the while loop of add_days, one unfolding per iteration
RECURSIVE AddDaysLoop(_, _, _, _)
AddDaysLoop(y, month, day, days) ==
    IF days <= 0 THEN EthioDate(y, month, day)
    ELSE LET ml == MonthLength(month, y) IN
         IF ml = InvalidMonth THEN Raised
         ELSE IF day + days <= ml THEN AddDaysLoop(y, month, day + days, 0)
         ELSE IF month + 1 > 13
              THEN AddDaysLoop(y + 1, 1, 1, days - (ml - day + 1))
              ELSE AddDaysLoop(y, month + 1, 1, days - (ml - day + 1))

AddDays(date, days) ==
    IF date = Raised THEN Raised
    ELSE AddDaysLoop(date.year, date.month, date.day, days)

Min(x, y) == IF x <= y THEN x ELSE y

\* variant: the day is carried over unclamped
AddMonthsNoClamp(date, months) ==
    IF date = Raised THEN Raised
    ELSE LET total_months == (date.month - 1) + months
             new_year     == date.year + (total_months \div 13)
             new_month    == (total_months % 13) + 1
             ml           == MonthLength(new_month, new_year)
         IN  IF ml = InvalidMonth THEN Raised
             ELSE EthioDate(new_year, new_month, date.day)

\* variant: the month is not made 0-based before the offset is added
AddMonthsOneBased(date, months) ==
    IF date = Raised THEN Raised
    ELSE LET total_months == date.month + months
             new_year     == date.year + (total_months \div 13)
             new_month    == (total_months % 13) + 1
             ml           == MonthLength(new_month, new_year)
         IN  IF ml = InvalidMonth THEN Raised
             ELSE EthioDate(new_year, new_month, Min(date.day, ml))

AddMonths(date, months) ==
    IF date = Raised THEN Raised
    ELSE LET total_months == (date.month - 1) + months
             new_year     == date.year + (total_months \div 13)
             new_month    == (total_months % 13) + 1
             ml           == MonthLength(new_month, new_year)
         IN  IF ml = InvalidMonth THEN Raised
             ELSE EthioDate(new_year, new_month, Min(date.day, ml))

----------------------------------------------------------------------------
(* Computus parameters *)

\* math.trunc(x / 4): true division, then truncation toward zero
TruncDiv(x, y) == IF x >= 0 THEN x \div y ELSE -((-x) \div y)

Evangelist(y) == (y % 100) % 4

MeteneRabeite(w) == TruncDiv(w, 4)

DayOfJohn(w) == (MeteneRabeite(w) + w) % 7

\* variant: cycle position left at 0
CycleRaw(w) == w % 19

Cycle(w) == IF w % 19 = 0 THEN 19 ELSE w % 19

Epact(g) == (g * 11) % 30

TrumpetMonth(mm) == IF mm < 14 THEN 2 ELSE 1

\* variant: month 2 starts on the weekday of month 1
FirstDayIndexNoShift(jd, t_month) == jd

FirstDayIndex(jd, t_month) == IF t_month = 2 THEN (jd + 2) % 7 ELSE jd

----------------------------------------------------------------------------
(* compute_fasts_and_feasts(year), statement by statement *)

Years == (0 - EpochOffset - YearSpan) .. (ReferenceYear + YearSpan)

CalIdle ==
    /\ cal_pc = "idle"
    /\ cal_d = Raised /\ cal_r1 = Raised /\ cal_r2 = Raised
    /\ cal_a = 0 /\ cal_b = 0

Init ==
    /\ year \in Years
    /\ pc = "start"
    /\ yw = 0 /\ E = 0 /\ Mr = 0 /\ Jd = 0 /\ c = 0 /\ n = 0 /\ a = 0 /\ m = 0
    /\ t_date = Raised /\ h_date = Raised /\ nineveh = Raised
    /\ first_day_index = 0 /\ i = 0
    /\ t_day_index = Unbound
    /\ results = <<>>
    /\ CalIdle

\* lines 76-89
ComputeParameters ==
    /\ pc = "start"
    /\ yw' = EpochOffset + year
    /\ E' = Evangelist(year)
    /\ Mr' = MeteneRabeite(yw')
    /\ Jd' = DayOfJohn(yw')
    /\ c' = Cycle(yw')
    /\ n' = c' - 1
    /\ a' = Epact(n')
    /\ m' = 30 - a'
    /\ pc' = "trumpet"
    /\ UNCHANGED <<year, t_date, first_day_index, i, t_day_index,
                   h_date, nineveh, results>>
    /\ UNCHANGED calVars

\* lines 92-102
FeastOfTrumpets ==
    /\ pc = "trumpet"
    /\ t_date' = EthioDate(year, TrumpetMonth(m), m)
    /\ first_day_index' = FirstDayIndex(Jd, TrumpetMonth(m))
    /\ i' = 0
    /\ pc' = "loop"
    /\ UNCHANGED <<year, yw, E, Mr, Jd, c, n, a, m, t_day_index,
                   h_date, nineveh, results>>
    /\ UNCHANGED calVars

\* lines 103-104: one iteration of  for i in range(t_day)
WeekdayLoop ==
    /\ pc = "loop"
    /\ i < t_date.day
    /\ t_day_index' = (first_day_index + i) % 7
    /\ i' = i + 1
    /\ UNCHANGED <<year, pc, yw, E, Mr, Jd, c, n, a, m, t_date,
                   first_day_index, h_date, nineveh, results>>
    /\ UNCHANGED calVars

\* line 110, entered when range(t_day) is exhausted
MebegaHemere ==
    /\ pc = "loop"
    /\ i >= t_date.day
    /\ IF t_day_index = Unbound
       THEN /\ pc' = "unbound"
            /\ UNCHANGED h_date
       ELSE LET h == AddDays(t_date, ADDON[t_day_index + 1]) IN
            /\ h_date' = h
            /\ pc' = IF h = Raised THEN "raised" ELSE "nineveh"
    /\ UNCHANGED <<year, yw, E, Mr, Jd, c, n, a, m, t_date,
                   first_day_index, i, t_day_index, nineveh, results>>
    /\ UNCHANGED calVars

\* line 113
Nineveh ==
    /\ pc = "nineveh"
    /\ nineveh' = AddMonths(h_date, 4)
    /\ pc' = IF nineveh' = Raised THEN "raised" ELSE "cascade"
    /\ UNCHANGED <<year, yw, E, Mr, Jd, c, n, a, m, t_date,
                   first_day_index, i, t_day_index, h_date, results>>
    /\ UNCHANGED calVars

\* lines 158-159: one iteration of  for name, offset in offsets.items()
Cascade ==
    /\ pc = "cascade"
    /\ Len(results) < Len(Offsets)
    /\ LET r == AddDays(nineveh, Offsets[Len(results) + 1]) IN
       IF r = Raised
       THEN /\ pc' = "raised"
            /\ UNCHANGED results
       ELSE /\ results' = Append(results, r)
            /\ pc' = IF Len(results') = Len(Offsets) THEN "done" ELSE "cascade"
    /\ UNCHANGED <<year, yw, E, Mr, Jd, c, n, a, m, t_date,
                   first_day_index, i, t_day_index, h_date, nineveh>>
    /\ UNCHANGED calVars

Next ==
    \/ ComputeParameters
    \/ FeastOfTrumpets
    \/ WeekdayLoop
    \/ MebegaHemere
    \/ Nineveh
    \/ Cascade

Spec == Init /\ [][Next]_vars

----------------------------------------------------------------------------
(* The calendar arithmetic on its own *)

CalYears == (0 - CalSpan) .. CalSpan

ValidDate(d) ==
    /\ d.month \in 1..13
    /\ d.day >= 1
    /\ d.day <= MonthLength(d.month, d.year)

CalDates ==
    { d \in [year : CalYears, month : 1..13, day : 1..30] : ValidDate(d) }

\* day counts handed to add_days: short steps, the steps of the feast
\* computation, and hops of a month, of four months and of about a year
DayArgs == (0 .. MaxShort) \cup {30, 31, 62, 69, 120, 121, 365, 366, 367}

MonthArgs == (0 - MaxMonths) .. MaxMonths

ComputeIdle ==
    /\ year = 0 /\ pc = "idle"
    /\ yw = 0 /\ E = 0 /\ Mr = 0 /\ Jd = 0 /\ c = 0 /\ n = 0 /\ a = 0 /\ m = 0
    /\ t_date = Raised /\ h_date = Raised /\ nineveh = Raised
    /\ first_day_index = 0 /\ i = 0
    /\ t_day_index = Unbound
    /\ results = <<>>

InitCal ==
    /\ ComputeIdle
    /\ cal_pc = "start"
    /\ cal_d \in CalDates
    /\ cal_a = 0 /\ cal_b = 0
    /\ cal_r1 = Raised /\ cal_r2 = Raised

\* r1 = add_days(d, a)
CallAddDays ==
    /\ cal_pc = "start"
    /\ \E k \in DayArgs :
         /\ cal_a' = k
         /\ cal_r1' = AddDays(cal_d, k)
    /\ cal_pc' = "add_days"
    /\ UNCHANGED <<cal_d, cal_b, cal_r2>>
    /\ UNCHANGED computeVars

\* r2 = add_days(r1, b)
CallAddDaysAgain ==
    /\ cal_pc = "add_days"
    /\ \E k \in DayArgs :
         /\ cal_b' = k
         /\ cal_r2' = AddDays(cal_r1, k)
    /\ cal_pc' = "add_days_twice"
    /\ UNCHANGED <<cal_d, cal_a, cal_r1>>
    /\ UNCHANGED computeVars

\* r1 = add_months(d, a)
CallAddMonths ==
    /\ cal_pc = "start"
    /\ \E k \in MonthArgs :
         /\ cal_a' = k
         /\ cal_r1' = AddMonths(cal_d, k)
    /\ cal_pc' = "add_months"
    /\ UNCHANGED <<cal_d, cal_b, cal_r2>>
    /\ UNCHANGED computeVars

NextCal ==
    \/ CallAddDays
    \/ CallAddDaysAgain
    \/ CallAddMonths

SpecCal == InitCal /\ [][NextCal]_vars

----------------------------------------------------------------------------
(* Properties *)

\* positions of compute_fasts_and_feasts at which the parameters are set
ParametersSet == pc \in {"trumpet", "loop", "nineveh", "cascade", "done"}

\* C1: for every year the computed parameters are in range: c in 1..19,
\* a in 0..29, E in 0..3, Jd in 0..6, and the weekday index of the Feast of
\* Trumpets, once the loop has set it, in 0..6.
C1_ParameterRanges ==
    /\ ParametersSet =>
         /\ c \in 1..19
         /\ a \in 0..29
         /\ E \in 0..3
         /\ Jd \in 0..6
    /\ pc \in {"nineveh", "cascade", "done"} => t_day_index \in 0..6

\* a negative year whose yw is a multiple of 19: c is 19, not 0
C1_Witness ==
    /\ pc = "done" /\ year < 0 - EpochOffset
    /\ yw % 19 = 0 /\ c = 19 /\ a = 18
    /\ t_day_index \in 0..6

\* C2: every date produced by add_days(d, n), n >= 0, or add_months(d, k)
\* from a valid date d is valid: month in 1..13 and
\* 1 <= day <= month_length(month, year) of the result's own month and year.
C2_ResultsValid ==
    /\ cal_pc \in {"add_days", "add_months", "add_days_twice"} => ValidDate(cal_r1)
    /\ cal_pc = "add_days_twice" => ValidDate(cal_r2)

\* add_months clamps day 30 to the 5 days of the 13th month of another year
C2_Witness ==
    /\ cal_pc = "add_months"
    /\ cal_d.day = 30 /\ cal_r1.month = 13 /\ cal_r1.day = 5
    /\ cal_r1.year < cal_d.year

\* add_days lands in the 6-day 13th month from an earlier year
C2_WitnessDays ==
    /\ cal_pc = "add_days"
    /\ cal_r1.month = 13 /\ cal_r1.day = 6 /\ cal_r1.year > cal_d.year

\* C3: add_days is additive: add_days(add_days(d, a), b) = add_days(d, a + b)
\* for every valid date d and non-negative a, b.
C3_Additive ==
    cal_pc = "add_days_twice" => cal_r2 = AddDays(cal_d, cal_a + cal_b)

\* both walks cross a month end, and the whole walk crosses a 6-day 13th
\* month and a year boundary
C3_Witness ==
    /\ cal_pc = "add_days_twice"
    /\ cal_a > 0 /\ cal_b > 0
    /\ cal_r1.month # cal_d.month /\ cal_r2.month # cal_r1.month
    /\ cal_r2.year > cal_d.year
    /\ IsEthioLeap(cal_d.year)
    /\ cal_r2 = AddDays(cal_d, cal_a + cal_b)

\* C4: for every year compute_fasts_and_feasts completes: month_length never
\* raises, every date it builds has its month in 1..13, and the run reaches
\* its end with all ten cascade dates.
C4_NoInvalidMonth ==
    /\ pc \notin {"raised", "unbound"}
    /\ pc \in {"loop", "nineveh", "cascade", "done"} => t_date.month \in 1..13
    /\ pc \in {"nineveh", "cascade", "done"} => h_date.month \in 1..13
    /\ pc \in {"cascade", "done"} => nineveh.month \in 1..13
    /\ \A j \in DOMAIN results : results[j].month \in 1..13

\* a year before -EpochOffset is carried to the end
C4_Witness ==
    /\ pc = "done" /\ year < 0 - EpochOffset
    /\ Len(results) = 10
    /\ h_date.month # t_date.month

\* (year, month, day) order
DateLess(d1, d2) ==
    \/ d1.year < d2.year
    \/ d1.year = d2.year /\ d1.month < d2.month
    \/ d1.year = d2.year /\ d1.month = d2.month /\ d1.day < d2.day

\* C5: the ten cascade dates are strictly increasing in offset order, each
\* being Nineveh advanced by its own offset.
C5_CascadeIncreasing ==
    /\ \A j, k \in DOMAIN results : j < k => DateLess(results[j], results[k])
    /\ \A j \in DOMAIN results : results[j] = AddDays(nineveh, Offsets[j])

\* all ten dates are computed, Crucifixion and Resurrection in different months
C5_Witness ==
    /\ pc = "done" /\ Len(results) = 10
    /\ results[4].month # results[5].month
    /\ DateLess(results[4], results[5])

Floor4(x) == x \div 4

\* C6: for every year, also below -EpochOffset, Mr = floor(yw / 4) and
\* Jd = (floor(yw / 4) + yw) mod 7.
C6_MrIsFloor ==
    ParametersSet =>
        /\ Mr = Floor4(yw)
        /\ Jd = (Floor4(yw) + yw) % 7

\* C7: the weekday index left by the loop over 0..t_day-1 is
\* (first_day_index + t_day - 1) mod 7 with first_day_index = Jd in month 1
\* and (Jd + 2) mod 7 in month 2, and t_day >= 1 so the loop body runs.
C7_LoopIsClosedForm ==
    /\ pc \in {"loop", "nineveh", "cascade", "done"} => t_date.day >= 1
    /\ pc \in {"nineveh", "cascade", "done"} =>
         /\ t_day_index # Unbound
         /\ t_date.month = 1 => t_day_index = (Jd + t_date.day - 1) % 7
         /\ t_date.month = 2 => t_day_index = (((Jd + 2) % 7) + t_date.day - 1) % 7
    /\ pc # "unbound"

\* the anchor is in month 2 and the loop has run to its end
C7_Witness ==
    /\ pc = "nineveh" /\ t_date.month = 2 /\ t_date.day > 7
    /\ i = t_date.day
    /\ t_day_index = (Jd + 2 + t_date.day - 1) % 7

\* C8: Nineveh has the year and the day of Mebega Hemere and a month 4
\* greater, month 5 or 6; it equals add_days(Mebega Hemere, 120).
C8_NinevehFourMonths ==
    pc \in {"cascade", "done"} =>
        /\ nineveh.year = h_date.year
        /\ nineveh.day = h_date.day
        /\ nineveh.month = h_date.month + 4
        /\ nineveh.month \in {5, 6}
        /\ nineveh = AddDays(h_date, 120)

\* Mebega Hemere has crossed from month 1 into month 2; Nineveh is in month 6
C8_Witness ==
    /\ pc = "cascade"
    /\ t_date.month = 1 /\ h_date.month = 2
    /\ nineveh.month = 6 /\ nineveh.day = h_date.day

\* weekday index of a date of the year whose first day has index jd
WeekdayOf(jd, d) == (jd + 30 * (d.month - 1) + d.day - 1) % 7

\* C9: Mebega Hemere is a Sunday: (t + ADDON[t]) mod 7 = 6 for the weekday
\* index t of the Feast of Trumpets, ADDON[t] is in 2..8, and no Sunday lies
\* 2 .. ADDON[t]-1 days after the Feast of Trumpets.
C9_MebegaHemereSunday ==
    pc \in {"nineveh", "cascade", "done"} =>
        LET addon == ADDON[t_day_index + 1] IN
        /\ (t_day_index + addon) % 7 = 6
        /\ addon \in 2..8
        /\ \A k \in 2..(addon - 1) : (t_day_index + k) % 7 # 6
        /\ WeekdayOf(Jd, h_date) = 6

\* the Feast of Trumpets is a Saturday: the addend is 8, not 1
C9_Witness ==
    /\ pc = "nineveh" /\ t_day_index = 5
    /\ h_date = AddDays(t_date, 8)

\* days of year y under month_length
YearLength(y) == 12 * 30 + MonthLength(13, y)

\* C10: for every year with 5500 + year >= 0,
\* Jd(year + 1) = (Jd(year) + L(year)) mod 7, L the length of the year under
\* month_length: Jd advances by 2 after a leap year and by 1 otherwise.
C10_JdFollowsYearLength ==
    (ParametersSet /\ yw >= 0) =>
        /\ DayOfJohn(EpochOffset + year + 1) = (Jd + YearLength(year)) % 7
        /\ DayOfJohn(EpochOffset + year + 1) =
             (Jd + (IF IsEthioLeap(year) THEN 2 ELSE 1)) % 7

\* a leap year: the next year's anchor is two weekdays on
C10_Witness ==
    /\ pc = "done" /\ yw >= 0 /\ IsEthioLeap(year)
    /\ YearLength(year) = 366
    /\ DayOfJohn(EpochOffset + year + 1) = (Jd + 2) % 7

====
